---- MODULE Spec2Model ----
(***************************************************************************)
(* A model of the coderd_group resource of terraform-provider-coderd:      *)
(* the Create / Read / Update / Delete / ImportState handlers of           *)
(* GroupResource, the entitlement gate, and the membership differ          *)
(* memberDiff, run against a model of the Coder deployment they call.      *)
(***************************************************************************)
EXTENDS Integers, Sequences, FiniteSets

(***************************************************************************)
(* Bounds and the small universes the inputs are drawn from.               *)
(***************************************************************************)
\* number of user IDs that exist on the deployment
NumUsers == 2
\* longest import identifier, in characters
MaxIdLen == 3
\* longest slice handed to memberDiff when it is checked on its own, and
\* the number of user IDs its slices are made of
MaxSliceLen == 3
NumDiffUsers == 3

Users == 1..NumUsers
DiffUsers == 1..NumDiffUsers
GroupIDs == {1, 2}
OrgIDs == {1, 2}

\* How a UUID is written: UUID n is the one-character string Digits[n].
Digits == <<"1", "2", "3", "4", "5">>
\* The characters an import identifier is made of.
Chars == {"/", "1"}


\* All sequences over S of length at most n.
SeqsUpTo(S, n) == UNION {[1..k -> S] : k \in 0..n}

\* The elements of a sequence.
Range(s) == {s[i] : i \in DOMAIN s}

\* A finite set of IDs listed in ascending order.  (Which order a set is
\* listed in does not matter to the deployment; memberDiff is checked on
\* every order on its own, under DiffSpec.)
RECURSIVE Listing(_)
Listing(S) ==
    IF S = {} THEN <<>>
    ELSE LET m == CHOOSE x \in S : \A y \in S : x <= y
         IN  <<m>> \o Listing(S \ {m})

(***************************************************************************)
(* UUID <-> string conversions (uuid.UUID.String, UUID.ValueString,        *)
(* uuid.Parse).                                                            *)
(***************************************************************************)
UUIDString(u) == <<Digits[u]>>

\* uuid.Parse: the ID a string names, or an error.
ParseUUID(s) ==
    IF Len(s) = 1 /\ \E n \in DOMAIN Digits : Digits[n] = s[1]
    THEN [err |-> FALSE, id |-> CHOOSE n \in DOMAIN Digits : Digits[n] = s[1]]
    ELSE [err |-> TRUE, id |-> 0]

\* The set of IDs a list of UUID strings names.
ParseAll(strs) == {ParseUUID(strs[i]).id : i \in DOMAIN strs}

(***************************************************************************)
(* memberDiff: the members to add and to remove, given the current and the *)
(* planned members.  add keeps the order of plannedMembers, remove the     *)
(* order of curMembers.                                                    *)
(***************************************************************************)
MapString(ids) == [i \in DOMAIN ids |-> UUIDString(ids[i])]

memberDiff_noRemove(curMembers, plannedMembers) ==
    LET curSet == Range(curMembers)
        notCur(p) == p \notin curSet
    IN  [add |-> MapString(SelectSeq(plannedMembers, notCur)),
         remove |-> <<>>]

memberDiff_addAll(curMembers, plannedMembers) ==
    LET planSet == Range(plannedMembers)
        notPlanned(c) == c \notin planSet
    IN  [add |-> MapString(plannedMembers),
         remove |-> MapString(SelectSeq(curMembers, notPlanned))]

memberDiff_removeAll(curMembers, plannedMembers) ==
    LET curSet == Range(curMembers)
        notCur(p) == p \notin curSet
    IN  [add |-> MapString(SelectSeq(plannedMembers, notCur)),
         remove |-> MapString(curMembers)]

memberDiff(curMembers, plannedMembers) ==
    LET curSet == Range(curMembers)
        planSet == Range(plannedMembers)
        notCur(p) == p \notin curSet
        notPlanned(c) == c \notin planSet
    IN  [add |-> MapString(SelectSeq(plannedMembers, notCur)),
         remove |-> MapString(SelectSeq(curMembers, notPlanned))]

(***************************************************************************)
(* Attribute values of the host framework: null, unknown or known.  v      *)
(* holds the Go zero value when the attribute is null or unknown, which is *)
(* what ValueString, ValueInt32 and ValueUUID return then.                 *)
(***************************************************************************)
Known(x) == [kind |-> "known", v |-> x]
NullOf(zero) == [kind |-> "null", v |-> zero]
UnknownOf(zero) == [kind |-> "unknown", v |-> zero]
IsNull(a) == a.kind = "null"
IsUnknown(a) == a.kind = "unknown"

\* Set.ElementsAs into a slice: the diagnostics ("" when there are none) and
\* the elements.  A null set gives the nil slice and no diagnostic.
ElementsAs_nullIsError(a) ==
    IF IsNull(a) THEN [diags |-> "Value Conversion Error", elems |-> <<>>]
    ELSE [diags |-> "", elems |-> Listing(a.v)]

ElementsAs(a) ==
    IF IsNull(a) THEN [diags |-> "", elems |-> <<>>]
    ELSE [diags |-> "", elems |-> Listing(a.v)]

(***************************************************************************)
(* The deployment: organizations, groups and the client calls on them.     *)
(***************************************************************************)
\* Organization o is named OrgName[o].
OrgName == <<(<<"a">>), (<<"1">>)>>

\* The scalar attributes a configuration may ask for.
Profiles ==
    { [Name |-> <<"a">>, DisplayName |-> "", AvatarURL |-> "", QuotaAllowance |-> 0],
      [Name |-> <<"b">>, DisplayName |-> "B", AvatarURL |-> "https://b", QuotaAllowance |-> 5] }

NoGroup == [exists |-> FALSE]

VARIABLES
    groups,     \* the deployment's groups, by ID
    used,       \* group IDs the deployment has handed out
    features,   \* r.data.Features[FeatureTemplateRBAC].Enabled
    config,     \* the configuration Terraform plans from
    state,      \* the Terraform state of the resource
    last,       \* the handler that has just returned: its calls and outcome
    diff        \* memberDiff checked on its own: inputs and result

vars == <<groups, used, features, config, state, last, diff>>

\* r.data.DefaultOrganizationID
DefaultOrganizationID == 1

\* A failed client call: nothing changes on the deployment.
SrvError(gs) == [err |-> TRUE, group |-> NoGroup, groups |-> gs]

\* createEntity: a new, empty, user-sourced group with a fresh ID.  Group
\* names are unique within an organization.
SrvCreateGroup(gs, taken, orgID, req, transportFails) ==
    IF \/ transportFails
       \/ \E g \in GroupIDs : /\ gs[g].exists
                              /\ gs[g].organizationID = orgID
                              /\ gs[g].name = req.Name
    THEN SrvError(gs)
    ELSE LET id == CHOOSE g \in GroupIDs \ taken : \A h \in GroupIDs \ taken : g <= h
             group == [exists |-> TRUE, id |-> id, name |-> req.Name,
                       displayName |-> req.DisplayName, avatarURL |-> req.AvatarURL,
                       quotaAllowance |-> req.QuotaAllowance, organizationID |-> orgID,
                       members |-> {}, source |-> "user"]
         IN  [err |-> FALSE, group |-> group, groups |-> [gs EXCEPT ![id] = group]]

\* fetchEntity
SrvGroup(gs, id, transportFails) ==
    IF transportFails \/ id \notin GroupIDs \/ ~gs[id].exists
    THEN SrvError(gs)
    ELSE [err |-> FALSE, group |-> gs[id], groups |-> gs]

\* patchEntity: an empty Name and a nil DisplayName, AvatarURL or
\* QuotaAllowance leave the attribute as it is; users are added, then removed.
SrvPatchGroup(gs, id, req, transportFails) ==
    IF \/ transportFails
       \/ id \notin GroupIDs
       \/ ~gs[id].exists
       \/ \E g \in GroupIDs \ {id} : /\ gs[g].exists
                                     /\ gs[g].organizationID = gs[id].organizationID
                                     /\ gs[g].name = req.Name
    THEN SrvError(gs)
    ELSE LET old == gs[id]
             group == [old EXCEPT
                 !.name = IF req.Name = <<>> THEN old.name ELSE req.Name,
                 !.displayName = IF IsNull(req.DisplayName) THEN old.displayName
                                 ELSE req.DisplayName.v,
                 !.avatarURL = IF IsNull(req.AvatarURL) THEN old.avatarURL
                               ELSE req.AvatarURL.v,
                 !.quotaAllowance = IF IsNull(req.QuotaAllowance) THEN old.quotaAllowance
                                    ELSE req.QuotaAllowance.v,
                 !.members = (old.members \cup ParseAll(req.AddUsers))
                                 \ ParseAll(req.RemoveUsers)]
         IN  [err |-> FALSE, group |-> group, groups |-> [gs EXCEPT ![id] = group]]

\* deleteEntity
SrvDeleteGroup(gs, id, transportFails) ==
    IF transportFails \/ id \notin GroupIDs \/ ~gs[id].exists
    THEN SrvError(gs)
    ELSE [err |-> FALSE, group |-> NoGroup, groups |-> [gs EXCEPT ![id] = NoGroup]]

\* fetchOrganizationByName
SrvOrganizationByName(name, transportFails) ==
    IF transportFails \/ ~\E o \in OrgIDs : OrgName[o] = name
    THEN [err |-> TRUE, id |-> 0]
    ELSE [err |-> FALSE, id |-> CHOOSE o \in OrgIDs : OrgName[o] = name]

\* fetchEntityByOrgAndName
SrvGroupByOrgAndName(gs, orgID, name, transportFails) ==
    LET found == {g \in GroupIDs : /\ gs[g].exists
                                   /\ gs[g].organizationID = orgID
                                   /\ gs[g].name = name}
    IN  IF transportFails \/ found = {}
        THEN SrvError(gs)
        ELSE [err |-> FALSE, group |-> gs[CHOOSE g \in found : TRUE], groups |-> gs]

(***************************************************************************)
(* GroupResourceModel and the Terraform state.                             *)
(***************************************************************************)
\* No state: the resource is not in the Terraform state.
NoState ==
    [set |-> FALSE, ID |-> NullOf(0), Name |-> NullOf(<<>>), DisplayName |-> NullOf(""),
     AvatarURL |-> NullOf(""), QuotaAllowance |-> NullOf(0),
     OrganizationID |-> NullOf(0), Members |-> NullOf({})]

\* resp.State.Set(ctx, &data)
StateSet(data) == [data EXCEPT !.set = TRUE]

\* resp.State.SetAttribute(ctx, path.Root("id"), id)
StateSetID_withEmptyMembers(id) ==
    [NoState EXCEPT !.set = TRUE, !.ID = Known(id), !.Members = Known({})]

StateSetID(id) == [NoState EXCEPT !.set = TRUE, !.ID = Known(id)]

\* The configurations: a profile, an organization (or none configured) and
\* a member set (or null: membership is not managed).
Configs ==
    { [Name |-> Known(p.Name), DisplayName |-> Known(p.DisplayName),
       AvatarURL |-> Known(p.AvatarURL), QuotaAllowance |-> Known(p.QuotaAllowance),
       OrganizationID |-> o, Members |-> m] :
         p \in Profiles,
         o \in {UnknownOf(0)} \cup {Known(x) : x \in OrgIDs},
         m \in {NullOf({})} \cup {Known(S) : S \in SUBSET Users} }

\* req.Plan.Get: the planned values of the configuration; the ID is unknown
\* before creation and the state's afterwards.
PlanGet(id) ==
    [set |-> TRUE, ID |-> id, Name |-> config.Name, DisplayName |-> config.DisplayName,
     AvatarURL |-> config.AvatarURL, QuotaAllowance |-> config.QuotaAllowance,
     OrganizationID |-> config.OrganizationID, Members |-> config.Members]

\* A client call as the handler made it: the ID it was made on or that it
\* returned (0: none), its argument, and whether it succeeded.
Call(name, id, arg, ok) == [call |-> name, id |-> id, arg |-> arg, ok |-> ok]

\* What a handler leaves behind.
Outcome(op, err, calls, gs, st, fetched, differ, reqID) ==
    [op |-> op, err |-> err, calls |-> calls, groups |-> gs,
     state |-> st, prior |-> state, fetched |-> fetched, differ |-> differ,
     reqID |-> reqID]

Idle == [op |-> "none", err |-> "", calls |-> <<>>, prior |-> NoState,
         fetched |-> NoGroup, differ |-> FALSE, reqID |-> <<>>, rerun |-> FALSE]

\* The handler's outcome becomes the next state.  rerun: the handler is an
\* Update that ran right after an Update that succeeded.
Apply(o) ==
    /\ groups' = o.groups
    /\ used' = {g \in GroupIDs : g \in used \/ o.groups[g].exists}
    /\ state' = o.state
    /\ last' = [op |-> o.op, err |-> o.err, calls |-> o.calls, prior |-> o.prior,
                fetched |-> o.fetched, differ |-> o.differ, reqID |-> o.reqID,
                rerun |-> o.op = "Update" /\ last.op = "Update" /\ last.err = ""]
    /\ UNCHANGED <<features, config, diff>>

(***************************************************************************)
(* CheckGroupEntitlements: the diagnostics, "" when there are none.        *)
(***************************************************************************)
CheckGroupEntitlements_never(enabled) == ""

CheckGroupEntitlements(enabled) ==
    IF ~enabled THEN "Feature not enabled" ELSE ""

(***************************************************************************)
(* GroupResource.Create                                                    *)
(***************************************************************************)
CreateGroupRequest(data) ==
    [Name |-> data.Name.v, DisplayName |-> data.DisplayName.v,
     AvatarURL |-> data.AvatarURL.v, QuotaAllowance |-> data.QuotaAllowance.v]

CreatePatchRequest_noMembers(members) ==
    [AddUsers |-> <<>>, RemoveUsers |-> <<>>, Name |-> <<>>,
     DisplayName |-> NullOf(""), AvatarURL |-> NullOf(""), QuotaAllowance |-> NullOf(0)]

CreatePatchRequest(members) ==
    [AddUsers |-> members, RemoveUsers |-> <<>>, Name |-> <<>>,
     DisplayName |-> NullOf(""), AvatarURL |-> NullOf(""), QuotaAllowance |-> NullOf(0)]

\* Create's return when PatchGroup failed: the calls made so far, and the
\* deployment as CreateGroup left it.
CreatePatchFailed_rollback(calls, gs, id) ==
    LET r == SrvDeleteGroup(gs, id, FALSE)
    IN  Outcome("Create", "Unable to add members to group",
                Append(calls, Call("DeleteGroup", id, <<>>, ~r.err)),
                r.groups, state, NoGroup, FALSE, <<>>)

CreatePatchFailed_retry(calls, gs, id) ==
    LET preq == calls[Len(calls)].arg
        r == SrvPatchGroup(gs, id, preq, FALSE)
    IN  Outcome("Create", "Unable to add members to group",
                Append(calls, Call("PatchGroup", id, preq, ~r.err)),
                r.groups, state, NoGroup, FALSE, <<>>)

CreatePatchFailed(calls, gs, id) ==
    Outcome("Create", "Unable to add members to group", calls, gs, state,
            NoGroup, FALSE, <<>>)

\* fail: which client call of the handler fails in transport (0: none).
CreateHandler(plan, fail) ==
    LET diags == CheckGroupEntitlements(features)
    IN  IF diags # ""
        THEN Outcome("Create", diags, <<>>, groups, state, NoGroup, FALSE, <<>>)
        ELSE
        LET data0 == IF IsUnknown(plan.OrganizationID)
                     THEN [plan EXCEPT !.OrganizationID = Known(DefaultOrganizationID)]
                     ELSE plan
            orgID == data0.OrganizationID.v
            req == CreateGroupRequest(data0)
            r1 == SrvCreateGroup(groups, used, orgID, req, fail = 1)
        IN  IF r1.err
            THEN Outcome("Create", "Unable to create group",
                         <<Call("CreateGroup", 0, [org |-> orgID, req |-> req], FALSE)>>,
                         groups, state, NoGroup, FALSE, <<>>)
            ELSE
            LET c1 == Call("CreateGroup", r1.group.id, [org |-> orgID, req |-> req], TRUE)
                data1 == [data0 EXCEPT !.ID = Known(r1.group.id),
                                       !.DisplayName = Known(r1.group.displayName)]
                members == ElementsAs(data1.Members)
            IN  IF members.diags # ""
                THEN Outcome("Create", members.diags, <<c1>>, r1.groups, state,
                             NoGroup, FALSE, <<>>)
                ELSE
                LET preq == CreatePatchRequest(MapString(members.elems))
                    r2 == SrvPatchGroup(r1.groups, r1.group.id, preq, fail = 2)
                    c2 == Call("PatchGroup", r1.group.id, preq, ~r2.err)
                IN  IF r2.err
                    THEN CreatePatchFailed(<<c1, c2>>, r1.groups, r1.group.id)
                    ELSE Outcome("Create", "", <<c1, c2>>, r2.groups,
                                 StateSet(data1), NoGroup, FALSE, <<>>)

\* Terraform creates a resource that has no state.  (The deployment has a
\* fresh group ID left to hand out.)
Create ==
    /\ ~state.set
    /\ GroupIDs \ used # {}
    /\ \E fail \in 0..2 : Apply(CreateHandler(PlanGet(UnknownOf(0)), fail))

(***************************************************************************)
(* GroupResource.Read                                                      *)
(***************************************************************************)
\* The members Read writes: the group's when the prior state's members are
\* not null, else the prior (null) value.
ReadMembers_always(prior, group) == Known(group.members)

ReadMembers(prior, group) ==
    IF ~IsNull(prior.Members) THEN Known(group.members) ELSE prior.Members

\* The deployment stores quota allowances as 32-bit integers, so the
\* int32(group.QuotaAllowance) conversion keeps the value.
ReadHandler(prior, fail) ==
    LET groupID == prior.ID.v
        r1 == SrvGroup(groups, groupID, fail = 1)
        c1 == Call("Group", groupID, <<>>, ~r1.err)
    IN  IF r1.err
        THEN Outcome("Read", "Unable to get group", <<c1>>, groups, state,
                     NoGroup, FALSE, <<>>)
        ELSE
        LET group == r1.group
            data == [prior EXCEPT
                !.Name = Known(group.name),
                !.DisplayName = Known(group.displayName),
                !.AvatarURL = Known(group.avatarURL),
                !.QuotaAllowance = Known(group.quotaAllowance),
                !.OrganizationID = Known(group.organizationID),
                !.Members = ReadMembers(prior, group)]
        IN  Outcome("Read", "", <<c1>>, groups, StateSet(data), group, FALSE, <<>>)

\* Terraform refreshes a resource that is in the state.
Read ==
    /\ state.set
    /\ \E fail \in 0..1 : Apply(ReadHandler(state, fail))

(***************************************************************************)
(* GroupResource.Update                                                    *)
(***************************************************************************)
\* The members to add and remove: none when the planned members are null.
\* cur lists the fetched group's members, planned the planned members.
UpdateDiff_fromState(data, cur, planned) ==
    IF ~IsNull(data.Members)
    THEN LET cached == Listing(state.Members.v)
             d == memberDiff(cached, planned)
         IN  [add |-> d.add, remove |-> d.remove, differ |-> TRUE]
    ELSE [add |-> <<>>, remove |-> <<>>, differ |-> FALSE]

UpdateDiff_always(data, cur, planned) ==
    LET d == memberDiff(cur, planned)
    IN  [add |-> d.add, remove |-> d.remove, differ |-> TRUE]

UpdateDiff(data, cur, planned) ==
    IF ~IsNull(data.Members)
    THEN LET d == memberDiff(cur, planned)
         IN  [add |-> d.add, remove |-> d.remove, differ |-> TRUE]
    ELSE [add |-> <<>>, remove |-> <<>>, differ |-> FALSE]

\* ValueStringPointer: nil for a null attribute.
ValuePointer(a) == IF IsNull(a) THEN NullOf(a.v) ELSE Known(a.v)

UpdatePatchRequest(data, add, remove) ==
    [AddUsers |-> add, RemoveUsers |-> remove, Name |-> data.Name.v,
     DisplayName |-> ValuePointer(data.DisplayName),
     AvatarURL |-> ValuePointer(data.AvatarURL),
     QuotaAllowance |-> Known(data.QuotaAllowance.v)]

UpdateHandler_gated(plan, fail) ==
    LET diags == CheckGroupEntitlements(features)
        data == IF IsUnknown(plan.OrganizationID)
                THEN [plan EXCEPT !.OrganizationID = Known(DefaultOrganizationID)]
                ELSE plan
        groupID == data.ID.v
        r1 == SrvGroup(groups, groupID, fail = 1)
        c1 == Call("Group", groupID, <<>>, ~r1.err)
        d == UpdateDiff(data, Listing(r1.group.members), ElementsAs(data.Members).elems)
        preq == UpdatePatchRequest(data, d.add, d.remove)
        r2 == SrvPatchGroup(groups, groupID, preq, fail = 2)
        c2 == Call("PatchGroup", groupID, preq, ~r2.err)
    IN  IF diags # ""
        THEN Outcome("Update", diags, <<>>, groups, state, NoGroup, FALSE, <<>>)
        ELSE IF r1.err
        THEN Outcome("Update", "Unable to get group", <<c1>>, groups, state,
                     NoGroup, FALSE, <<>>)
        ELSE IF r2.err
        THEN Outcome("Update", "Unable to update group", <<c1, c2>>, groups,
                     state, r1.group, d.differ, <<>>)
        ELSE Outcome("Update", "", <<c1, c2>>, r2.groups, StateSet(data),
                     r1.group, d.differ, <<>>)

UpdateHandler(plan, fail) ==
    LET data == IF IsUnknown(plan.OrganizationID)
                THEN [plan EXCEPT !.OrganizationID = Known(DefaultOrganizationID)]
                ELSE plan
        groupID == data.ID.v
        r1 == SrvGroup(groups, groupID, fail = 1)
        c1 == Call("Group", groupID, <<>>, ~r1.err)
    IN  IF r1.err
        THEN Outcome("Update", "Unable to get group", <<c1>>, groups, state,
                     NoGroup, FALSE, <<>>)
        ELSE
        LET group == r1.group
            plannedMembers == ElementsAs(data.Members)
        IN  IF ~IsNull(data.Members) /\ plannedMembers.diags # ""
            THEN Outcome("Update", plannedMembers.diags, <<c1>>, groups, state,
                         group, FALSE, <<>>)
            ELSE
            LET curMembers == Listing(group.members)
                d == UpdateDiff(data, curMembers, plannedMembers.elems)
                preq == UpdatePatchRequest(data, d.add, d.remove)
                r2 == SrvPatchGroup(groups, group.id, preq, fail = 2)
                c2 == Call("PatchGroup", group.id, preq, ~r2.err)
            IN  IF r2.err
                THEN Outcome("Update", "Unable to update group", <<c1, c2>>, groups,
                             state, group, d.differ, <<>>)
                ELSE Outcome("Update", "", <<c1, c2>>, r2.groups, StateSet(data),
                             group, d.differ, <<>>)

\* Terraform updates a resource that is in the state; a configured
\* organization that differs from the state's forces replacement instead.
Update ==
    /\ state.set
    /\ IsUnknown(config.OrganizationID) \/ config.OrganizationID = state.OrganizationID
    /\ \E fail \in 0..2 : Apply(UpdateHandler(PlanGet(state.ID), fail))

(***************************************************************************)
(* GroupResource.Delete                                                    *)
(***************************************************************************)
DeleteHandler_forgetOnError(prior, fail) ==
    LET groupID == prior.ID.v
        r1 == SrvDeleteGroup(groups, groupID, fail = 1)
        c1 == Call("DeleteGroup", groupID, <<>>, ~r1.err)
    IN  Outcome("Delete", IF r1.err THEN "Unable to delete group" ELSE "",
                <<c1>>, r1.groups, NoState, NoGroup, FALSE, <<>>)

DeleteHandler(prior, fail) ==
    LET groupID == prior.ID.v
        r1 == SrvDeleteGroup(groups, groupID, fail = 1)
        c1 == Call("DeleteGroup", groupID, <<>>, ~r1.err)
    IN  IF r1.err
        THEN Outcome("Delete", "Unable to delete group", <<c1>>, groups, state,
                     NoGroup, FALSE, <<>>)
        ELSE Outcome("Delete", "", <<c1>>, r1.groups, NoState, NoGroup, FALSE, <<>>)

\* Terraform destroys a resource that is in the state, and drops it from the
\* state when the handler reports no error.
Delete ==
    /\ state.set
    /\ \E fail \in 0..1 : Apply(DeleteHandler(state, fail))

(***************************************************************************)
(* GroupResource.ImportState                                               *)
(***************************************************************************)
\* strings.Split(s, "/")
RECURSIVE Split(_)
Split(s) ==
    IF \A i \in DOMAIN s : s[i] # "/"
    THEN <<s>>
    ELSE LET k == CHOOSE i \in DOMAIN s : s[i] = "/" /\ \A j \in 1..(i - 1) : s[j] # "/"
         IN  <<SubSeq(s, 1, k - 1)>> \o Split(SubSeq(s, k + 1, Len(s)))

\* The identifier is <organization-name>/<group-name>.
IsOrgAndName_orMore(idParts) == Len(idParts) >= 2

IsOrgAndName(idParts) == Len(idParts) = 2

\* The fetch of the resolved group, the OIDC check and the write of the ID.
\* lookups: the calls made to resolve the identifier; nth: the fetch's place
\* among the handler's calls.
ImportFetch_noFetch(reqID, groupID, lookups, fail, nth) ==
    Outcome("ImportState", "", lookups, groups,
            StateSetID(ParseUUID(UUIDString(groupID)).id), NoGroup, FALSE, reqID)

ImportFetch_noSourceCheck(reqID, groupID, lookups, fail, nth) ==
    LET r == SrvGroup(groups, groupID, fail = nth)
        calls == Append(lookups, Call("Group", groupID, <<>>, ~r.err))
    IN  IF r.err
        THEN Outcome("ImportState", "Unable to get imported group", calls,
                     groups, state, NoGroup, FALSE, reqID)
        ELSE Outcome("ImportState", "", calls, groups,
                     StateSetID(ParseUUID(UUIDString(groupID)).id), r.group, FALSE, reqID)

ImportFetch(reqID, groupID, lookups, fail, nth) ==
    LET r == SrvGroup(groups, groupID, fail = nth)
        calls == Append(lookups, Call("Group", groupID, <<>>, ~r.err))
    IN  IF r.err
        THEN Outcome("ImportState", "Unable to get imported group", calls,
                     groups, state, NoGroup, FALSE, reqID)
        ELSE IF r.group.source = "oidc"
        THEN Outcome("ImportState", "Cannot import groups created via OIDC",
                     calls, groups, state, r.group, FALSE, reqID)
        ELSE Outcome("ImportState", "", calls, groups,
                     StateSetID(ParseUUID(UUIDString(groupID)).id), r.group, FALSE, reqID)

ImportStateHandler(reqID, fail) ==
    LET idParts == Split(reqID)
    IN  IF Len(idParts) = 1
        THEN LET parsed == ParseUUID(reqID)
             IN  IF parsed.err
                 THEN Outcome("ImportState", "Unable to parse import group ID as UUID",
                              <<>>, groups, state, NoGroup, FALSE, reqID)
                 ELSE ImportFetch(reqID, parsed.id, <<>>, fail, 1)
        ELSE IF IsOrgAndName(idParts)
        THEN LET org == SrvOrganizationByName(idParts[1], fail = 1)
                 c1 == Call("OrganizationByName", org.id, idParts[1], ~org.err)
             IN  IF org.err
                 THEN Outcome("ImportState", "Failed to get organization", <<c1>>,
                              groups, state, NoGroup, FALSE, reqID)
                 ELSE
                 LET r2 == SrvGroupByOrgAndName(groups, org.id, idParts[2], fail = 2)
                     c2 == Call("GroupByOrgAndName",
                                IF r2.err THEN 0 ELSE r2.group.id,
                                [org |-> org.id, name |-> idParts[2]], ~r2.err)
                 IN  IF r2.err
                     THEN Outcome("ImportState", "Failed to get group", <<c1, c2>>,
                                  groups, state, NoGroup, FALSE, reqID)
                     ELSE ImportFetch(reqID, r2.group.id, <<c1, c2>>, fail, 3)
        ELSE Outcome("ImportState", "Invalid import ID format", <<>>, groups,
                     state, NoGroup, FALSE, reqID)

\* The client calls an import of reqID makes when none fails.
ImportCalls(reqID) ==
    LET n == Len(Split(reqID))
    IN  IF n = 1 THEN (IF ParseUUID(reqID).err THEN 0 ELSE 1)
        ELSE IF n = 2 THEN 3 ELSE 0

\* terraform import adopts into a resource address that has no state.  A
\* failed import changes nothing, so an import right after one reaches
\* nothing that an import in its place does not reach.
ImportState ==
    /\ ~state.set
    /\ ~(last.op = "ImportState" /\ last.err # "")
    /\ \E reqID \in SeqsUpTo(Chars, MaxIdLen) : \E fail \in 0..ImportCalls(reqID) :
          Apply(ImportStateHandler(reqID, fail))

(***************************************************************************)
(* The world outside Terraform: a user joins or leaves a group.            *)
(***************************************************************************)
ExternalChange ==
    /\ \E g \in GroupIDs : \E u \in Users :
          /\ groups[g].exists
          /\ groups' = [groups EXCEPT ![g].members =
                            IF u \in @ THEN @ \ {u} ELSE @ \cup {u}]
    /\ last' = Idle
    /\ UNCHANGED <<used, features, config, state, diff>>

(***************************************************************************)
(* The specification of the resource.                                      *)
(***************************************************************************)
DiffIdle == [cur |-> <<>>, planned |-> <<>>, done |-> FALSE, add |-> <<>>, remove |-> <<>>]

\* A deployment with one group that Terraform did not create: it is named
\* "1", in the organization named "1" (not the default one), and sourced
\* from a user or from OIDC.
Init ==
    /\ \E src \in {"user", "oidc"} :
          groups = [g \in GroupIDs |->
                      IF g = 1
                      THEN [exists |-> TRUE, id |-> 1, name |-> <<"1">>,
                            displayName |-> "One", avatarURL |-> "https://1",
                            quotaAllowance |-> 9, organizationID |-> 2,
                            members |-> {}, source |-> src]
                      ELSE NoGroup]
    /\ used = {1}
    /\ features \in BOOLEAN
    /\ config \in Configs
    /\ state = NoState
    /\ last = Idle
    /\ diff = DiffIdle

Next ==
    \/ Create
    \/ Read
    \/ Update
    \/ Delete
    \/ ImportState
    \/ ExternalChange

Spec == Init /\ [][Next]_vars

(***************************************************************************)
(* memberDiff on its own: any two slices of user IDs.                      *)
(***************************************************************************)
DiffInit ==
    /\ diff \in {[cur |-> c, planned |-> p, done |-> FALSE, add |-> <<>>, remove |-> <<>>] :
                    c \in SeqsUpTo(DiffUsers, MaxSliceLen),
                    p \in SeqsUpTo(DiffUsers, MaxSliceLen)}
    /\ groups = [g \in GroupIDs |-> NoGroup]
    /\ used = {}
    /\ features = TRUE
    /\ config = CHOOSE c \in Configs : TRUE
    /\ state = NoState
    /\ last = Idle

RunMemberDiff ==
    /\ ~diff.done
    /\ LET d == memberDiff(diff.cur, diff.planned)
       IN  diff' = [diff EXCEPT !.done = TRUE, !.add = d.add, !.remove = d.remove]
    /\ UNCHANGED <<groups, used, features, config, state, last>>

DiffNext == RunMemberDiff

DiffSpec == DiffInit /\ [][DiffNext]_vars

(***************************************************************************)
(* Properties.  last describes the handler that returned in the step       *)
(* leading to the state; the properties read the deployment (groups) and   *)
(* the Terraform state as that handler left them.                          *)
(***************************************************************************)
\* The calls of the last handler that went to the named client operation.
CallsTo(name) == {i \in DOMAIN last.calls : last.calls[i].call = name}

\* The calls of the last handler that change the deployment.
MutatingCalls == CallsTo("CreateGroup") \cup CallsTo("PatchGroup") \cup CallsTo("DeleteGroup")

\* The desired membership is managed.
Managed == ~IsNull(config.Members)

\* The number of "/"-separated segments of an identifier.
Segments(id) == Cardinality({i \in DOMAIN id : id[i] = "/"}) + 1

\* The identifier is a UUID as written.
WritesUUID(id) == \E n \in DOMAIN Digits : id = <<Digits[n]>>

\* C1: with managed membership, a Create or Update that returns without
\* error leaves the group in the state with exactly the desired members.
C1_ReconciledMembership ==
    (last.op \in {"Create", "Update"} /\ last.err = "" /\ Managed)
        => /\ state.set
           /\ state.ID.v \in GroupIDs
           /\ groups[state.ID.v].exists
           /\ groups[state.ID.v].members = config.Members.v

\* An Update succeeded that had members both to add and to remove.
C1_Witness ==
    /\ last.op = "Update" /\ last.err = "" /\ Managed
    /\ last.fetched.exists
    /\ last.fetched.members \ config.Members.v # {}
    /\ config.Members.v \ last.fetched.members # {}

\* C2: memberDiff(current, desired) returns, as sets, toAdd = desired \ current
\* and toRemove = current \ desired; so (current \cup toAdd) \ toRemove =
\* desired, and toAdd, current and toRemove, desired and toAdd, toRemove are
\* pairwise disjoint.
C2_MemberDiffSets ==
    diff.done =>
        LET current == Range(diff.cur)
            desired == Range(diff.planned)
            toAdd == {u \in DiffUsers : \E i \in DOMAIN diff.add : diff.add[i] = <<Digits[u]>>}
            toRemove == {u \in DiffUsers : \E i \in DOMAIN diff.remove : diff.remove[i] = <<Digits[u]>>}
        IN  /\ \A i \in DOMAIN diff.add : \E u \in DiffUsers : diff.add[i] = <<Digits[u]>>
            /\ \A i \in DOMAIN diff.remove : \E u \in DiffUsers : diff.remove[i] = <<Digits[u]>>
            /\ toAdd = desired \ current
            /\ toRemove = current \ desired
            /\ (current \cup toAdd) \ toRemove = desired
            /\ toAdd \cap current = {}
            /\ toRemove \cap desired = {}
            /\ toAdd \cap toRemove = {}

\* memberDiff returned members to add and members to remove, from slices
\* that share a member.
C2_Witness ==
    /\ diff.done
    /\ diff.add # <<>>
    /\ diff.remove # <<>>
    /\ Range(diff.cur) \cap Range(diff.planned) # {}

\* C3: with the feature disabled, Create fails with "Feature not enabled",
\* makes no client call and writes no state; the deployment holds no group
\* but the one it started with.
C3_CreateGated ==
    /\ (last.op = "Create" /\ ~features)
          => /\ last.err = "Feature not enabled"
             /\ last.calls = <<>>
             /\ ~state.set
             /\ state = last.prior
    /\ ~features => \A g \in GroupIDs : groups[g].exists => g = 1

\* Create returned with the feature disabled.
C3_Witness == last.op = "Create" /\ ~features

\* C4: when CreateGroup succeeded and the PatchGroup that follows it failed,
\* Create reports an error, has made no DeleteGroup call, and the created
\* group still exists on the deployment.
C4_NoRollback ==
    \A i \in CallsTo("CreateGroup") : \A j \in CallsTo("PatchGroup") :
        (last.op = "Create" /\ last.calls[i].ok /\ ~last.calls[j].ok)
            => /\ last.err # ""
               /\ CallsTo("DeleteGroup") = {}
               /\ groups[last.calls[i].id].exists

\* Create returned after its CreateGroup succeeded and its PatchGroup failed.
C4_Witness ==
    /\ last.op = "Create"
    /\ \E i \in CallsTo("CreateGroup") : last.calls[i].ok
    /\ \E j \in CallsTo("PatchGroup") : ~last.calls[j].ok

\* C5: once CreateGroup has succeeded, Create leaves the returned group ID in
\* the Terraform state, also when the PatchGroup that follows fails.
C5_CreatedIDPersisted ==
    \A i \in CallsTo("CreateGroup") :
        (last.op = "Create" /\ last.calls[i].ok)
            => state.set /\ state.ID = Known(last.calls[i].id)

\* C6: a Create that succeeds with managed membership M has made exactly
\* two client calls: CreateGroup, then PatchGroup on the returned ID with
\* AddUsers = M and no RemoveUsers.
C6_CreateCalls ==
    (last.op = "Create" /\ last.err = "" /\ Managed)
        => /\ Len(last.calls) = 2
           /\ last.calls[1].call = "CreateGroup" /\ last.calls[1].ok
           /\ last.calls[2].call = "PatchGroup" /\ last.calls[2].ok
           /\ last.calls[2].id = last.calls[1].id
           /\ {u \in Users : \E k \in DOMAIN last.calls[2].arg.AddUsers :
                  last.calls[2].arg.AddUsers[k] = <<Digits[u]>>} = config.Members.v
           /\ Len(last.calls[2].arg.AddUsers) = Cardinality(config.Members.v)
           /\ last.calls[2].arg.RemoveUsers = <<>>

\* Create succeeded with a non-empty managed membership.
C6_Witness ==
    /\ last.op = "Create" /\ last.err = "" /\ Managed
    /\ config.Members.v # {}

\* C7 as claimed: Create calls PatchGroup only if the desired membership is
\* managed.
C7_PatchOnlyIfManaged ==
    (last.op = "Create" /\ CallsTo("PatchGroup") # {}) => Managed

\* C7 as the code has it: a Create whose CreateGroup succeeds calls
\* PatchGroup exactly once whether or not membership is managed; with
\* unmanaged (null) membership that patch has no AddUsers and no RemoveUsers,
\* and the new group has no members.
C7_UnmanagedCreatePatchesNothing ==
    \A i \in CallsTo("CreateGroup") :
        (last.op = "Create" /\ last.calls[i].ok /\ ~Managed)
            => /\ Len(last.calls) = 2
               /\ last.calls[2].call = "PatchGroup"
               /\ last.calls[2].id = last.calls[i].id
               /\ last.calls[2].arg.AddUsers = <<>>
               /\ last.calls[2].arg.RemoveUsers = <<>>
               /\ groups[last.calls[i].id].exists
               /\ groups[last.calls[i].id].members = {}

\* Create succeeded with unmanaged membership.
C7_Witness == last.op = "Create" /\ last.err = "" /\ ~Managed

\* C8: an Update makes exactly one Group call, first; when that fetch
\* succeeds it makes exactly one PatchGroup call after it and nothing else
\* (when the fetch fails the Update ends there).  With managed membership
\* the patch's AddUsers and RemoveUsers are, as sets, desired \ fetched and
\* fetched \ desired for the members that fetch returned, whatever the
\* state held; so a successful Update leaves the desired members.
C8_UpdateDiffsFetched ==
    last.op = "Update" =>
        /\ Len(last.calls) >= 1
        /\ CallsTo("Group") = {1}
        /\ last.calls[1].id = last.prior.ID.v
        /\ ~last.calls[1].ok => Len(last.calls) = 1
        /\ last.calls[1].ok =>
              /\ Len(last.calls) = 2
              /\ last.calls[2].call = "PatchGroup"
              /\ last.calls[2].id = last.calls[1].id
              /\ last.fetched.exists
              /\ Managed =>
                    LET add == last.calls[2].arg.AddUsers
                        remove == last.calls[2].arg.RemoveUsers
                    IN  /\ {u \in Users : \E k \in DOMAIN add : add[k] = <<Digits[u]>>}
                              = config.Members.v \ last.fetched.members
                        /\ {u \in Users : \E k \in DOMAIN remove : remove[k] = <<Digits[u]>>}
                              = last.fetched.members \ config.Members.v
                        /\ Len(add) = Cardinality(config.Members.v \ last.fetched.members)
                        /\ Len(remove) = Cardinality(last.fetched.members \ config.Members.v)
                        /\ last.calls[2].ok =>
                              groups[last.calls[2].id].members = config.Members.v

\* An Update succeeded on a group whose members had changed since the state
\* was written: the fetch returned other members than the state held, and
\* members had to be removed.
C8_Witness ==
    /\ last.op = "Update" /\ last.err = "" /\ Managed
    /\ ~IsNull(last.prior.Members)
    /\ last.fetched.exists
    /\ last.fetched.members # last.prior.Members.v
    /\ last.fetched.members \ config.Members.v # {}
    /\ last.prior.Members.v = config.Members.v

\* C9: an Update with unmanaged (null) membership does not run the differ;
\* the one PatchGroup it makes has no AddUsers and no RemoveUsers, and the
\* group's members are afterwards what the fetch returned.
C9_UnmanagedUpdateKeepsMembers ==
    (last.op = "Update" /\ ~Managed)
        => /\ ~last.differ
           /\ \A j \in CallsTo("PatchGroup") :
                 /\ last.calls[j].arg.AddUsers = <<>>
                 /\ last.calls[j].arg.RemoveUsers = <<>>
                 /\ last.fetched.exists
                 /\ groups[last.calls[j].id].exists
                 /\ groups[last.calls[j].id].members = last.fetched.members
           /\ Len(last.calls) <= 2
           /\ last.calls[1].ok => Cardinality(CallsTo("PatchGroup")) = 1

\* An Update with unmanaged membership succeeded on a group that has members.
C9_Witness ==
    /\ last.op = "Update" /\ last.err = "" /\ ~Managed
    /\ last.fetched.exists
    /\ last.fetched.members # {}

\* C10: an import of an identifier with three or more "/"-separated
\* segments, or of a single segment that is not a UUID, fails as malformed
\* without a client call and leaves no ID in the state.
C10_MalformedImport ==
    (/\ last.op = "ImportState"
     /\ \/ Segments(last.reqID) >= 3
        \/ Segments(last.reqID) = 1 /\ ~WritesUUID(last.reqID))
        => /\ last.err = IF Segments(last.reqID) = 1
                         THEN "Unable to parse import group ID as UUID"
                         ELSE "Invalid import ID format"
           /\ last.calls = <<>>
           /\ ~state.set
           /\ IsNull(state.ID)

\* An import of a three-segment identifier whose first segment names an
\* organization has returned.
C10_Witness ==
    /\ last.op = "ImportState"
    /\ Segments(last.reqID) = 3
    /\ last.reqID[1] = "1"

\* The text of an identifier before and after its first "/".
BeforeSlash(id) ==
    LET k == CHOOSE i \in DOMAIN id : id[i] = "/" /\ \A j \in 1..(i - 1) : id[j] # "/"
    IN  SubSeq(id, 1, k - 1)

AfterSlash(id) ==
    LET k == CHOOSE i \in DOMAIN id : id[i] = "/" /\ \A j \in 1..(i - 1) : id[j] # "/"
    IN  SubSeq(id, k + 1, Len(id))

\* C11: an import of "org/name" makes exactly one OrganizationByName call,
\* on org, first; only when it succeeds, exactly one GroupByOrgAndName call
\* on the returned organization ID and name; only when that succeeds, the
\* one Group fetch of the group found.  When the organization lookup fails
\* nothing else is called.  An import of a bare UUID makes the one Group
\* fetch of that ID and no lookup.
C11_ImportLookups ==
    /\ (last.op = "ImportState" /\ Segments(last.reqID) = 2)
          => /\ Len(last.calls) >= 1
             /\ CallsTo("OrganizationByName") = {1}
             /\ last.calls[1].arg = BeforeSlash(last.reqID)
             /\ ~last.calls[1].ok =>
                   /\ Len(last.calls) = 1
                   /\ last.err = "Failed to get organization"
             /\ last.calls[1].ok =>
                   /\ Len(last.calls) >= 2
                   /\ CallsTo("GroupByOrgAndName") = {2}
                   /\ last.calls[2].arg.org = last.calls[1].id
                   /\ last.calls[2].arg.name = AfterSlash(last.reqID)
                   /\ OrgName[last.calls[1].id] = BeforeSlash(last.reqID)
                   /\ ~last.calls[2].ok => Len(last.calls) = 2 /\ CallsTo("Group") = {}
                   /\ last.calls[2].ok =>
                         /\ Len(last.calls) = 3
                         /\ last.calls[3].call = "Group"
                         /\ last.calls[3].id = last.calls[2].id
    /\ (last.op = "ImportState" /\ Segments(last.reqID) = 1 /\ WritesUUID(last.reqID))
          => /\ Len(last.calls) = 1
             /\ last.calls[1].call = "Group"
             /\ <<Digits[last.calls[1].id]>> = last.reqID

\* An import by organization and group name went through both lookups and
\* the fetch, and succeeded.
C11_Witness ==
    /\ last.op = "ImportState" /\ last.err = ""
    /\ Segments(last.reqID) = 2
    /\ Len(last.calls) = 3

\* C12: an import that resolves to a group sourced from OIDC fails with
\* "Cannot import groups created via OIDC", leaves no ID in the state and
\* makes no CreateGroup, PatchGroup or DeleteGroup call; no import, by UUID or
\* by organization and group name, leaves an OIDC group in the state.
C12_NoOIDCImport ==
    last.op = "ImportState" =>
        /\ MutatingCalls = {}
        /\ \A i \in CallsTo("Group") :
              (last.calls[i].ok /\ groups[last.calls[i].id].source = "oidc")
                 => /\ last.err = "Cannot import groups created via OIDC"
                    /\ ~state.set
                    /\ IsNull(state.ID)
        /\ state.set => /\ groups[state.ID.v].exists
                        /\ groups[state.ID.v].source # "oidc"

\* An import by organization and group name found an OIDC group and failed.
C12_Witness ==
    /\ last.op = "ImportState"
    /\ Segments(last.reqID) = 2
    /\ \E i \in CallsTo("Group") :
          last.calls[i].ok /\ groups[last.calls[i].id].source = "oidc"

\* C13: an Update that runs right after an Update that succeeded, with the
\* same configuration and no change on the deployment in between, leaves
\* every group as the first Update left it, and the PatchGroup it makes has
\* no AddUsers and no RemoveUsers.
C13_UpdateIdempotent ==
    [][(last.op = "Update" /\ last.err = "" /\ last'.op = "Update")
          => /\ groups' = groups
             /\ config' = config
             /\ \A j \in DOMAIN last'.calls :
                   last'.calls[j].call = "PatchGroup"
                      => /\ last'.calls[j].arg.AddUsers = <<>>
                         /\ last'.calls[j].arg.RemoveUsers = <<>>]_vars

\* An Update with a non-empty managed membership succeeded right after an
\* Update that succeeded.
C13_Witness ==
    /\ last.rerun /\ last.op = "Update" /\ last.err = ""
    /\ Managed /\ config.Members.v # {}
    /\ CallsTo("PatchGroup") # {}

\* C14: memberDiff of two slices that list the same set of members, in
\* any order and with any repetition, returns no member to add and no member
\* to remove.
C14_MemberDiffSame ==
    (diff.done /\ Range(diff.cur) = Range(diff.planned))
        => /\ diff.add = <<>>
           /\ diff.remove = <<>>

\* memberDiff returned for two slices that list the same two or more members
\* in different orders.
C14_Witness ==
    /\ diff.done
    /\ Range(diff.cur) = Range(diff.planned)
    /\ Cardinality(Range(diff.cur)) >= 2
    /\ diff.cur # diff.planned

\* C15: in Create, Read, Update, Delete and ImportState, a client call that
\* fails is the last call the handler makes; the handler then reports an
\* error and leaves the Terraform state as it found it.  No handler makes
\* the same client call twice.
C15_FirstFailureEnds ==
    /\ \A i \in DOMAIN last.calls :
          ~last.calls[i].ok
             => /\ i = Len(last.calls)
                /\ last.err # ""
                /\ state = last.prior
    /\ \A i, j \in DOMAIN last.calls :
          last.calls[i].call = last.calls[j].call => i = j
    /\ last.op \in {"none", "Create", "Read", "Update", "Delete", "ImportState"}

\* An Update fetched the group and then failed in PatchGroup, on a group
\* whose members differ from the desired ones.
C15_Witness ==
    /\ last.op = "Update" /\ Managed
    /\ Len(last.calls) = 2
    /\ last.calls[1].ok
    /\ ~last.calls[2].ok
    /\ last.fetched.members # config.Members.v

\* C16: a Read that succeeds writes the fetched group's name, display name,
\* avatar URL, quota allowance and organization ID to the state whatever it
\* held; it writes the group's current members only when the prior state's
\* members were not null, and leaves null members null whatever members the
\* group has.  The ID is kept.
C16_ReadRefresh ==
    (last.op = "Read" /\ last.err = "")
        => LET group == groups[last.prior.ID.v]
           IN  /\ group.exists
               /\ last.fetched = group
               /\ state.set
               /\ state.ID = last.prior.ID
               /\ state.Name = Known(group.name)
               /\ state.DisplayName = Known(group.displayName)
               /\ state.AvatarURL = Known(group.avatarURL)
               /\ state.QuotaAllowance = Known(group.quotaAllowance)
               /\ state.OrganizationID = Known(group.organizationID)
               /\ IsNull(last.prior.Members) => IsNull(state.Members)
               /\ ~IsNull(last.prior.Members) => state.Members = Known(group.members)

\* A Read succeeded on a state an Update had written, whose members were
\* null and whose organization differed from that of the group, which has
\* members.
C16_Witness ==
    /\ last.op = "Read" /\ last.err = ""
    /\ IsNull(last.prior.Members)
    /\ ~IsNull(last.prior.Name)
    /\ last.fetched.members # {}
    /\ last.prior.OrganizationID # Known(last.fetched.organizationID)

\* C17: an import that succeeds leaves a state that holds the ID of the
\* group it fetched and nothing else: name, display name, avatar URL, quota
\* allowance, organization ID and members are null.  A Read that succeeds on
\* such a state writes the group's scalar attributes and leaves the members
\* null.
C17_ImportWritesOnlyID ==
    /\ (last.op = "ImportState" /\ last.err = "")
          => /\ last.fetched.exists
             /\ state.set
             /\ state.ID = Known(last.fetched.id)
             /\ IsNull(state.Name)
             /\ IsNull(state.DisplayName)
             /\ IsNull(state.AvatarURL)
             /\ IsNull(state.QuotaAllowance)
             /\ IsNull(state.OrganizationID)
             /\ IsNull(state.Members)
    /\ (last.op = "Read" /\ last.err = "" /\ IsNull(last.prior.Name))
          => /\ IsNull(last.prior.Members)
             /\ state.ID = last.prior.ID
             /\ state.Name = Known(groups[state.ID.v].name)
             /\ state.DisplayName = Known(groups[state.ID.v].displayName)
             /\ state.AvatarURL = Known(groups[state.ID.v].avatarURL)
             /\ state.QuotaAllowance = Known(groups[state.ID.v].quotaAllowance)
             /\ state.OrganizationID = Known(groups[state.ID.v].organizationID)
             /\ IsNull(state.Members)

\* The first Read after an import succeeded, on a group that has members.
C17_Witness ==
    /\ last.op = "Read" /\ last.err = ""
    /\ IsNull(last.prior.Name)
    /\ IsNull(last.prior.OrganizationID)
    /\ groups[state.ID.v].members # {}

\* C18: a Delete makes exactly one client call, DeleteGroup on the ID in the
\* state.  When the call succeeds the resource has no state afterwards and
\* the group is gone; when it fails the state is as it was before.
C18_DeleteOnce ==
    last.op = "Delete"
        => /\ last.prior.set
           /\ Len(last.calls) = 1
           /\ last.calls[1].call = "DeleteGroup"
           /\ last.calls[1].id = last.prior.ID.v
           /\ last.calls[1].ok <=> last.err = ""
           /\ last.err = "" => /\ state = NoState
                               /\ ~groups[last.prior.ID.v].exists
           /\ last.err # "" => state = last.prior

\* A Delete failed on a state that holds a group with managed members.
C18_Witness ==
    /\ last.op = "Delete" /\ last.err # ""
    /\ state.set
    /\ ~IsNull(state.Members)
    /\ groups[state.ID.v].exists

\* C19 as claimed: with the feature disabled, no handler makes a CreateGroup,
\* PatchGroup or DeleteGroup call.
C19_NoMutationWhenDisabled ==
    ~features => MutatingCalls = {}

\* C19 as the code has it: only Create checks the entitlement.  With the
\* feature disabled, Create fails with "Feature not enabled" before any call,
\* and Read and ImportState make no mutating call; Update and Delete never
\* report "Feature not enabled": an Update whose fetch succeeded makes its
\* PatchGroup call and a Delete makes its DeleteGroup call.
C19_OnlyCreateGated ==
    ~features
        => /\ last.op = "Create" => (last.calls = <<>> /\ last.err = "Feature not enabled")
           /\ last.op \in {"Read", "ImportState"} => MutatingCalls = {}
           /\ last.op \in {"Update", "Delete"} => last.err # "Feature not enabled"
           /\ (last.op = "Update" /\ Len(last.calls) >= 1 /\ last.calls[1].ok)
                 => CallsTo("PatchGroup") = {2}
           /\ last.op = "Update" => Len(last.calls) >= 1
           /\ last.op = "Delete" => CallsTo("DeleteGroup") = {1}

\* With the feature disabled, an Update succeeded and changed the members of
\* the group.
C19_Witness ==
    /\ ~features
    /\ last.op = "Update" /\ last.err = ""
    /\ last.fetched.exists
    /\ groups[last.fetched.id].members # last.fetched.members

\* C20: an Update does not change the organization of the group, and an
\* Update that succeeds leaves in the state the organization ID the group
\* has on the deployment, also when the planned organization ID was unknown
\* and the default organization was filled in.
C20_UpdateKeepsOrganization ==
    (last.op = "Update" /\ last.err = "")
        => /\ last.fetched.exists
           /\ groups[last.fetched.id].organizationID = last.fetched.organizationID
           /\ state.OrganizationID = Known(groups[last.fetched.id].organizationID)

====
